---- MODULE Spec2Model ----
(***************************************************************************)
(* The Spheres star field of the fly arena (class Spheres, a three.js      *)
(* Group): its geometry builder, its reconfiguration interface, its        *)
(* rotation / oscillation animation and its logging hook.                  *)
(*                                                                         *)
(* Number representation (fixed point, all integers):                      *)
(*   - an angle is counted in 1/3600 of a full turn, so 2*Math.PI is 3600  *)
(*     and one degree is 10;                                               *)
(*   - a time (Date.now()/1000, and the delta of tick) is counted in       *)
(*     clock steps of 1/TicksPerSec second;                                *)
(*   - a rotation rate is counted in angle units per clock step, so that   *)
(*     delta * rotateRadHz is exact;                                       *)
(*   - a sine is counted in 1/SinScale.                                    *)
(* A value that JavaScript leaves undefined is the empty sequence, a       *)
(* defined value v is <<v>>.                                               *)
(***************************************************************************)
EXTENDS Integers, Sequences, FiniteSets, TLC

VARIABLES
    phase,          \* "new" before the constructor ran, "live" after it returned, "threw" when it threw
    config,         \* the fields sphereCount, sphereRadiusDeg, shellRadius, color, seed, positions
    children,       \* Group.children: the star primitives, in insertion order
    rotation,       \* this.rotation.y
    rotateRadHz,    \* this.rotateRadHz, undefined until set
    startTime,      \* this.startTime, undefined while no oscillation is active
    osc_hz,         \* this.osc_hz, undefined until setOscillation ran
    max_deg,        \* this.max_deg (radians, despite its name), undefined until setOscillation ran
    loggable,       \* whether this.loggable holds a logger
    lid,            \* this.lid, the loop (trial) id
    now,            \* the wall clock, Date.now()/1000
    emitted,        \* the entries the last operation handed to loggable.log, in order
    lastOp,         \* the last step taken: its name, its argument (the arguments of the
                    \* constructor and of changeSpheres as a record), whether it returned normally,
                    \* and for a tick the name of the step it came after and the rotation
                    \* it started from
    oscSeen,        \* the result of the last oscillating tick made at the present wall time
                    \* under the present oscillation settings, if there was one, and whether
                    \* an earlier such tick had been made
    bare            \* a second field, constructed with the same arguments and sent the same
                    \* calls at the same wall times, to which no logger is ever attached:
                    \* its primitive count, rotation.y, rotateRadHz, startTime, osc_hz,
                    \* max_deg and lid, and whether its last call returned normally

vars == <<phase, config, children, rotation, rotateRadHz, startTime, osc_hz, max_deg,
          loggable, lid, now, emitted, lastOp, oscSeen, bare>>

----------------------------------------------------------------------------
(* Bounds of the model *)

MaxCount == 3       \* largest sphereCount passed to the constructor and to changeSpheres
MaxTime == 3        \* last value of the wall clock
MaxDelta == 2       \* largest delta passed to tick

(* Fixed-point units *)

TwoPi == 3600       \* 2*Math.PI in angle units
TicksPerSec == 4    \* clock steps per second
SinScale == 10000   \* Math.sin returns values in 1/SinScale

----------------------------------------------------------------------------
(* JavaScript values and arithmetic *)

Undefined == <<>>

Some(v) == <<v>>

Abs(x) == IF x < 0 THEN -x ELSE x

\* division rounding toward zero
TDiv(a, b) == IF (a < 0) = (b < 0) THEN Abs(a) \div Abs(b) ELSE -(Abs(a) \div Abs(b))

\* the JavaScript remainder a % m: it has the sign of the dividend a
JsRem(a, m) == IF a < 0 THEN -((-a) % Abs(m)) ELSE a % Abs(m)

\* MathUtils.degToRad: degrees * (2 pi / 360)
degToRad(deg) == TDiv(deg * TwoPi, 360)

\* Math.sin on the first quadrant, one entry per 5 degrees from 0 to 90
SinTable ==
    <<0, 872, 1736, 2588, 3420, 4226, 5000, 5736, 6428, 7071,
      7660, 8192, 8660, 9063, 9397, 9659, 9848, 9962, 10000>>

\* Math.sin of an angle in angle units, quantised to 5 degrees
Sin(x) ==
    LET m == x % TwoPi                  \* in 0 .. TwoPi-1
        g == (m * 72) \div TwoPi        \* 5-degree grid index, 0 .. 71
        q == g % 18
    IN  CASE g < 18 -> SinTable[q + 1]
          [] g < 36 -> SinTable[18 - q + 1]
          [] g < 54 -> -SinTable[q + 1]
          [] OTHER  -> -SinTable[18 - q + 1]

\* JavaScript truthiness of a number field that may be undefined
Truthy(f) == f # Undefined /\ f[1] # 0

----------------------------------------------------------------------------
(* Logging *)

\* Spheres._log: one (lid, key, value) entry when a logger is attached, nothing otherwise
log(key, value) == IF loggable THEN << <<lid, key, value>> >> ELSE <<>>

----------------------------------------------------------------------------
(* Inputs the host passes in *)

RadiusInputs == { <<5>>, <<5, 30>> }        \* sphereRadiusDeg arrays, in degrees
ColorInputs == { <<"green">>, <<"green", "red">> }
ShellInputs == { 10 }
SeedInputs == { 7 }

\* the position source: entry i is [x, y, z, radius] of star i
StarPositions == [i \in 1..(MaxCount + 1) |-> <<i, -i, 10 + i, 5>>]

PositionInputs == { SubSeq(StarPositions, 1, k) : k \in 0..MaxCount }
CountInputs == 0..MaxCount
RateInputs == { -900, 0, 900 }              \* rotation rates, angle units per clock step
RateDegInputs == { 90 }                     \* rotation rates in degrees per clock step
AngleInputs == { -4500, 1800, 3600 }        \* angles for setRotationRad
OscHzInputs == { -1, 1 }
MaxDegInputs == { -30, 30, 450 }
DeltaInputs == 0..MaxDelta
LidInputs == { 0, 1 }

----------------------------------------------------------------------------
(* Geometry builder *)

Ids(kids) == { kids[j].id : j \in 1..Len(kids) }

\* clear() leaving the children in place
clearNothing(kids) == kids

\* Group.clear(): the children left after it
clear(kids) == <<>>

\* cyclic indexing that starts one entry late
cyclicOffByOne(arr, i) == arr[((i + 1) % Len(arr)) + 1]

\* arr[i % arr.length], with i counted from 0
cyclic(arr, i) == arr[(i % Len(arr)) + 1]

\* the identity of a newly allocated Mesh: distinct from every object in `used`
NewId(used) == CHOOSE i \in 0..Cardinality(used) : i \notin used /\ \A j \in 0..(i - 1) : j \in used

\* the for loop of _setup from index i on; kids are the children added so far,
\* used the identities of the objects alive since the operation began
RECURSIVE setupLoop(_, _, _, _, _, _, _, _)
setupLoop(i, sphereCount, sphereRadiusDeg, shellRadius, positions, color, kids, used) ==
    IF i >= sphereCount
    THEN [children |-> kids, ok |-> TRUE]
    ELSE IF i >= Len(positions)
    THEN [children |-> kids, ok |-> FALSE]      \* positions[i] is undefined: positions[i][0] throws
    ELSE LET sphereRadiusRad == degToRad(cyclic(sphereRadiusDeg, i))
             sphereMesh == [ id       |-> NewId(used),
                             radius   |-> shellRadius * Sin(sphereRadiusRad),
                             color    |-> cyclic(color, i),
                             position |-> << positions[i + 1][1], positions[i + 1][2], positions[i + 1][3] >> ]
         IN  setupLoop(i + 1, sphereCount, sphereRadiusDeg, shellRadius, positions, color,
                       Append(kids, sphereMesh), used \cup {sphereMesh.id})

\* the six entries _setup logs before it builds
setupLog(sphereCount, sphereRadiusDeg, shellRadius, seed, color) ==
    log("spheres-sphere-count", sphereCount)
    \o log("spheres-sphere-radius-degrees", sphereRadiusDeg)
    \o log("spheres-shell-radius", shellRadius)
    \o log("spheres-seed", seed)
    \o log("spheres-sphere-color", color)
    \o log("spheres-type", "SphereGeometry")

\* _setup skipping the stars that have no position instead of throwing
_setupSilent(sphereCount, sphereRadiusDeg, shellRadius, seed, positions, color, kids, used) ==
    LET built == setupLoop(0, sphereCount, sphereRadiusDeg, shellRadius, positions, color, kids, used)
    IN  [ children |-> built.children,
          ok       |-> TRUE,
          log      |-> setupLog(sphereCount, sphereRadiusDeg, shellRadius, seed, color) ]

\* _setup adding its primitives only when all of them could be built
_setupAllOrNothing(sphereCount, sphereRadiusDeg, shellRadius, seed, positions, color, kids, used) ==
    LET built == setupLoop(0, sphereCount, sphereRadiusDeg, shellRadius, positions, color, kids, used)
    IN  [ children |-> IF built.ok THEN built.children ELSE kids,
          ok       |-> built.ok,
          log      |-> setupLog(sphereCount, sphereRadiusDeg, shellRadius, seed, color) ]

\* _setup on a group holding `kids`: the children it leaves, whether it returned, what it logged
_setup(sphereCount, sphereRadiusDeg, shellRadius, seed, positions, color, kids, used) ==
    LET built == setupLoop(0, sphereCount, sphereRadiusDeg, shellRadius, positions, color, kids, used)
    IN  [ children |-> built.children,
          ok       |-> built.ok,
          log      |-> setupLog(sphereCount, sphereRadiusDeg, shellRadius, seed, color) ]

----------------------------------------------------------------------------
(* Animation *)

\* setRotationRad without the remainder
setRotationRadValueRaw(angle) == angle

\* the angle setRotationRad stores
setRotationRadValue(angle) == JsRem(angle, TwoPi)

\* setOscillation clearing the start time for a zero rate only
oscillationStartNonZero(hz, c_time) == IF hz # 0 THEN Some(c_time) ELSE Undefined

\* the start time setOscillation stores at wall time c_time
oscillationStart(hz, c_time) == IF hz > 0 THEN Some(c_time) ELSE Undefined

\* the rotating branch of tick normalising into [0, 2 pi)
tickRotationFloorMod(rot, delta, rate) ==
    IF Truthy(rate) THEN (rot + delta * rate[1]) % TwoPi ELSE rot % TwoPi

\* the rotating branch of tick adding the rate once per call, whatever the delta
tickRotationPerCall(rot, delta, rate) ==
    IF Truthy(rate) THEN JsRem(rot + rate[1], TwoPi) ELSE rot

\* the rotating branch of tick
tickRotation(rot, delta, rate) ==
    IF Truthy(rate) THEN JsRem(rot + delta * rate[1], TwoPi) ELSE rot

\* the oscillating branch of tick at wall time c_time
tickOscillation(c_time, start, hz, maxRad) ==
    TDiv(Sin(TDiv((c_time - start) * hz * TwoPi, TicksPerSec)) * maxRad, SinScale)

\* tick letting a set rotation rate win over the oscillation
tickValueRateFirst(rot, delta, rate, start, hz, maxRad, c_time) ==
    IF start = Undefined \/ Truthy(rate)
    THEN tickRotation(rot, delta, rate)
    ELSE tickOscillation(c_time, start[1], hz[1], maxRad[1])

\* tick adding the oscillation angle to the rotation it finds
tickValueAccumulating(rot, delta, rate, start, hz, maxRad, c_time) ==
    IF start = Undefined
    THEN tickRotation(rot, delta, rate)
    ELSE JsRem(rot + tickOscillation(c_time, start[1], hz[1], maxRad[1]), TwoPi)

\* the rotation tick stores: the rotating branch while startTime is undefined,
\* the oscillating branch otherwise
tickValue(rot, delta, rate, start, hz, maxRad, c_time) ==
    IF start = Undefined
    THEN tickRotation(rot, delta, rate)
    ELSE tickOscillation(c_time, start[1], hz[1], maxRad[1])

\* the animation mode of section 4.3
Mode ==
    IF startTime # Undefined THEN "OSCILLATING"
    ELSE IF Truthy(rotateRadHz) THEN "ROTATING"
    ELSE "IDLE"

----------------------------------------------------------------------------
(* State machine *)

Init ==
    /\ phase = "new"
    /\ config = [ sphereCount |-> 0, sphereRadiusDeg |-> <<>>, shellRadius |-> 0,
                  color |-> <<>>, seed |-> 0, positions |-> <<>> ]
    /\ children = <<>>
    /\ rotation = 0
    /\ rotateRadHz = Undefined
    /\ startTime = Undefined
    /\ osc_hz = Undefined
    /\ max_deg = Undefined
    /\ loggable = FALSE
    /\ lid = 0
    /\ now = 0
    /\ emitted = <<>>
    /\ lastOp = [op |-> "none", arg |-> 0, ok |-> TRUE]
    /\ oscSeen = Undefined
    /\ bare = [ count |-> 0, rotation |-> 0, rotateRadHz |-> Undefined, startTime |-> Undefined,
                osc_hz |-> Undefined, max_deg |-> Undefined, lid |-> 0, ok |-> TRUE ]

\* the operations on a field whose loggable is null, where every _log call returns at once
unloggedConstructor(b, sphereCount, sphereRadiusDeg, shellRadius, color) ==
    LET built == _setup(sphereCount, sphereRadiusDeg, shellRadius, 0, <<>>, color, <<>>, {})
    IN  [b EXCEPT !.count = Len(built.children), !.ok = built.ok]

unloggedChangeSpheres(b, sphereCount, sphereRadiusDeg, shellRadius, seed, positions, color) ==
    LET built == _setup(sphereCount, sphereRadiusDeg, shellRadius, seed, positions, color, <<>>, {})
    IN  [b EXCEPT !.count = Len(built.children), !.rotation = setRotationRadValue(0), !.ok = built.ok]

unloggedClearSpheres(b) == [b EXCEPT !.count = 0, !.ok = TRUE]

unloggedSetRotateRadHz(b, rate) == [b EXCEPT !.rotateRadHz = Some(rate), !.ok = TRUE]

unloggedSetRotateDegHz(b, rotate_deg_hz) ==
    [b EXCEPT !.rotateRadHz = Some(degToRad(rotate_deg_hz)), !.ok = TRUE]

unloggedSetOscillation(b, hz, deg, c_time) ==
    [b EXCEPT !.startTime = oscillationStart(hz, c_time), !.osc_hz = Some(hz),
              !.max_deg = Some(degToRad(deg)), !.ok = TRUE]

unloggedSetRotationRad(b, angle) == [b EXCEPT !.rotation = setRotationRadValue(angle), !.ok = TRUE]

unloggedTick(b, delta, c_time) ==
    [b EXCEPT !.rotation = tickValue(b.rotation, delta, b.rotateRadHz, b.startTime,
                                     b.osc_hz, b.max_deg, c_time),
              !.ok = TRUE]

unloggedSetLid(b, newLid) == [b EXCEPT !.lid = newLid, !.ok = TRUE]

\* new Spheres(sphereCount, sphereRadiusDeg, shellRadius, color)
constructor(sphereCount, sphereRadiusDeg, shellRadius, color) ==
    /\ phase = "new"
    /\ LET built == _setup(sphereCount, sphereRadiusDeg, shellRadius, 0, <<>>, color, <<>>, {})
       IN  /\ phase' = IF built.ok THEN "live" ELSE "threw"
           /\ children' = built.children
           /\ emitted' = built.log
           /\ lastOp' = [ op  |-> "constructor",
                         arg |-> [ sphereCount |-> sphereCount, sphereRadiusDeg |-> sphereRadiusDeg,
                                   shellRadius |-> shellRadius, positions |-> <<>>, color |-> color ],
                         ok  |-> built.ok ]
    /\ config' = [ sphereCount |-> sphereCount, sphereRadiusDeg |-> sphereRadiusDeg,
                   shellRadius |-> shellRadius, color |-> color, seed |-> 0, positions |-> <<>> ]
    /\ bare' = unloggedConstructor(bare, sphereCount, sphereRadiusDeg, shellRadius, color)
    /\ UNCHANGED <<rotation, rotateRadHz, startTime, osc_hz, max_deg, loggable, lid, now, oscSeen>>

Construct ==
    \E n \in CountInputs, rad \in RadiusInputs, shell \in ShellInputs, col \in ColorInputs :
        constructor(n, rad, shell, col)

\* changeSpheres without its call of setRotationRad(0)
changeSpheresKeepingRotation(sphereCount, sphereRadiusDeg, shellRadius, seed, positions, color) ==
    /\ phase = "live"
    /\ LET built == _setup(sphereCount, sphereRadiusDeg, shellRadius, seed, positions, color,
                           clear(children), Ids(children))
       IN  /\ children' = built.children
           /\ emitted' = log("spheres-change-clear", Undefined)
                         \o built.log
           /\ lastOp' = [ op  |-> "changeSpheres",
                         arg |-> [ sphereCount |-> sphereCount, sphereRadiusDeg |-> sphereRadiusDeg,
                                   shellRadius |-> shellRadius, positions |-> positions, color |-> color ],
                         ok  |-> built.ok ]
    /\ bare' = unloggedChangeSpheres(bare, sphereCount, sphereRadiusDeg, shellRadius, seed, positions, color)
    /\ UNCHANGED <<rotation, phase, config, rotateRadHz, startTime, osc_hz, max_deg, loggable, lid, now, oscSeen>>

\* changeSpheres stopping the animation as well
changeSpheresStoppingAnimation(sphereCount, sphereRadiusDeg, shellRadius, seed, positions, color) ==
    /\ phase = "live"
    /\ LET built == _setup(sphereCount, sphereRadiusDeg, shellRadius, seed, positions, color,
                           clear(children), Ids(children))
       IN  /\ children' = built.children
           /\ emitted' = log("spheres-set-rotationRad", 0)
                         \o log("spheres-change-clear", Undefined)
                         \o built.log
           /\ lastOp' = [ op  |-> "changeSpheres",
                         arg |-> [ sphereCount |-> sphereCount, sphereRadiusDeg |-> sphereRadiusDeg,
                                   shellRadius |-> shellRadius, positions |-> positions, color |-> color ],
                         ok  |-> built.ok ]
    /\ rotation' = setRotationRadValue(0)
    /\ rotateRadHz' = Undefined
    /\ startTime' = Undefined
    /\ bare' = unloggedChangeSpheres(bare, sphereCount, sphereRadiusDeg, shellRadius, seed, positions, color)
    /\ UNCHANGED <<phase, config, osc_hz, max_deg, loggable, lid, now, oscSeen>>

\* changeSpheres(sphereCount, sphereRadiusDeg, shellRadius, seed, positions, color)
changeSpheres(sphereCount, sphereRadiusDeg, shellRadius, seed, positions, color) ==
    /\ phase = "live"
    /\ LET built == _setup(sphereCount, sphereRadiusDeg, shellRadius, seed, positions, color,
                           clear(children), Ids(children))
       IN  /\ children' = built.children
           /\ emitted' = log("spheres-set-rotationRad", 0)
                         \o log("spheres-change-clear", Undefined)
                         \o built.log
           /\ lastOp' = [ op  |-> "changeSpheres",
                         arg |-> [ sphereCount |-> sphereCount, sphereRadiusDeg |-> sphereRadiusDeg,
                                   shellRadius |-> shellRadius, positions |-> positions, color |-> color ],
                         ok  |-> built.ok ]
    /\ rotation' = setRotationRadValue(0)
    /\ bare' = unloggedChangeSpheres(bare, sphereCount, sphereRadiusDeg, shellRadius, seed, positions, color)
    /\ UNCHANGED <<phase, config, rotateRadHz, startTime, osc_hz, max_deg, loggable, lid, now, oscSeen>>

ChangeSpheres ==
    \E n \in CountInputs, rad \in RadiusInputs, shell \in ShellInputs, seed \in SeedInputs,
       pos \in PositionInputs, col \in ColorInputs :
        changeSpheres(n, rad, shell, seed, pos, col)

\* clearSpheres resetting the rotation as changeSpheres does
clearSpheresResettingRotation ==
    /\ phase = "live"
    /\ children' = clear(children)
    /\ rotation' = setRotationRadValue(0)
    /\ emitted' = log("spheres-clear", Undefined)
    /\ lastOp' = [op |-> "clearSpheres", arg |-> 0, ok |-> TRUE]
    /\ bare' = unloggedClearSpheres(bare)
    /\ UNCHANGED <<phase, config, rotateRadHz, startTime, osc_hz, max_deg,
                   loggable, lid, now, oscSeen>>

\* clearSpheres()
clearSpheres ==
    /\ phase = "live"
    /\ children' = clear(children)
    /\ emitted' = log("spheres-clear", Undefined)
    /\ lastOp' = [op |-> "clearSpheres", arg |-> 0, ok |-> TRUE]
    /\ bare' = unloggedClearSpheres(bare)
    /\ UNCHANGED <<phase, config, rotation, rotateRadHz, startTime, osc_hz, max_deg,
                   loggable, lid, now, oscSeen>>

setRotateRadHz(rate) ==
    /\ phase = "live"
    /\ rotateRadHz' = Some(rate)
    /\ emitted' = log("spheres-set-rotateRadHz", rate)
    /\ lastOp' = [op |-> "setRotateRadHz", arg |-> 0, ok |-> TRUE]
    /\ bare' = unloggedSetRotateRadHz(bare, rate)
    /\ UNCHANGED <<phase, config, children, rotation, startTime, osc_hz, max_deg,
                   loggable, lid, now, oscSeen>>

SetRotateRadHz == \E rate \in RateInputs : setRotateRadHz(rate)

setRotateDegHz(rotate_deg_hz) ==
    /\ phase = "live"
    /\ rotateRadHz' = Some(degToRad(rotate_deg_hz))
    /\ emitted' = log("spheres-set-rotate_deg_hz", rotate_deg_hz)
    /\ lastOp' = [op |-> "setRotateDegHz", arg |-> 0, ok |-> TRUE]
    /\ bare' = unloggedSetRotateDegHz(bare, rotate_deg_hz)
    /\ UNCHANGED <<phase, config, children, rotation, startTime, osc_hz, max_deg,
                   loggable, lid, now, oscSeen>>

SetRotateDegHz == \E rate \in RateDegInputs : setRotateDegHz(rate)

setOscillation(hz, deg) ==
    /\ phase = "live"
    /\ startTime' = oscillationStart(hz, now)
    /\ osc_hz' = Some(hz)
    /\ max_deg' = Some(degToRad(deg))
    /\ emitted' = <<>>
    /\ lastOp' = [op |-> "setOscillation", arg |-> hz, ok |-> TRUE]
    /\ oscSeen' = Undefined
    /\ bare' = unloggedSetOscillation(bare, hz, deg, now)
    /\ UNCHANGED <<phase, config, children, rotation, rotateRadHz, loggable, lid, now>>

SetOscillation == \E hz \in OscHzInputs, deg \in MaxDegInputs : setOscillation(hz, deg)

\* setRotationRad logging the angle it stored
setRotationRadLoggingStored(angle) ==
    /\ phase = "live"
    /\ rotation' = setRotationRadValue(angle)
    /\ emitted' = log("spheres-set-rotationRad", setRotationRadValue(angle))
    /\ lastOp' = [op |-> "setRotationRad", arg |-> angle, ok |-> TRUE]
    /\ bare' = unloggedSetRotationRad(bare, angle)
    /\ UNCHANGED <<phase, config, children, rotateRadHz, startTime, osc_hz, max_deg,
                   loggable, lid, now, oscSeen>>

\* setRotationRad(rotation)
setRotationRad(angle) ==
    /\ phase = "live"
    /\ rotation' = setRotationRadValue(angle)
    /\ emitted' = log("spheres-set-rotationRad", angle)
    /\ lastOp' = [op |-> "setRotationRad", arg |-> angle, ok |-> TRUE]
    /\ bare' = unloggedSetRotationRad(bare, angle)
    /\ UNCHANGED <<phase, config, children, rotateRadHz, startTime, osc_hz, max_deg,
                   loggable, lid, now, oscSeen>>

SetRotationRad == \E angle \in AngleInputs : setRotationRad(angle)

tick(delta) ==
    /\ phase = "live"
    /\ rotation' = tickValue(rotation, delta, rotateRadHz, startTime, osc_hz, max_deg, now)
    /\ oscSeen' = IF startTime = Undefined THEN oscSeen
                  ELSE Some([rotation |-> rotation', again |-> oscSeen # Undefined])
    /\ emitted' = IF loggable THEN << <<lid, "spheres-tick-rotation", rotation'>> >> ELSE <<>>
    /\ lastOp' = [op |-> "tick", arg |-> delta, ok |-> TRUE, after |-> lastOp.op, from |-> rotation]
    /\ bare' = unloggedTick(bare, delta, now)
    /\ UNCHANGED <<phase, config, children, rotateRadHz, startTime, osc_hz, max_deg,
                   loggable, lid, now>>

Tick == \E delta \in DeltaInputs : tick(delta)

\* setLid storing the new loop id before it logs
setLidStoringFirst(newLid) ==
    /\ phase = "live"
    /\ emitted' = IF loggable THEN << <<newLid, "spheres-set-lid-old", newLid>> >> ELSE <<>>
    /\ lid' = newLid
    /\ lastOp' = [op |-> "setLid", arg |-> 0, ok |-> TRUE]
    /\ bare' = unloggedSetLid(bare, newLid)
    /\ UNCHANGED <<phase, config, children, rotation, rotateRadHz, startTime, osc_hz, max_deg,
                   loggable, now, oscSeen>>

\* setLid storing the new loop id only when there is a logger to tell
setLidWhenLogged(newLid) ==
    /\ phase = "live"
    /\ emitted' = log("spheres-set-lid-old", newLid)
    /\ lid' = IF loggable THEN newLid ELSE lid
    /\ lastOp' = [op |-> "setLid", arg |-> 0, ok |-> TRUE]
    /\ bare' = unloggedSetLid(bare, newLid)
    /\ UNCHANGED <<phase, config, children, rotation, rotateRadHz, startTime, osc_hz, max_deg,
                   loggable, now, oscSeen>>

\* setLid(lid)
setLid(newLid) ==
    /\ phase = "live"
    /\ emitted' = log("spheres-set-lid-old", newLid)
    /\ lid' = newLid
    /\ lastOp' = [op |-> "setLid", arg |-> 0, ok |-> TRUE]
    /\ bare' = unloggedSetLid(bare, newLid)
    /\ UNCHANGED <<phase, config, children, rotation, rotateRadHz, startTime, osc_hz, max_deg,
                   loggable, now, oscSeen>>

SetLid == \E newLid \in LidInputs : setLid(newLid)

\* the host attaches a logger to the public field loggable
attachLoggable ==
    /\ phase = "live"
    /\ ~loggable
    /\ loggable' = TRUE
    /\ emitted' = <<>>
    /\ lastOp' = [op |-> "attachLoggable", arg |-> 0, ok |-> TRUE]
    /\ UNCHANGED bare
    /\ UNCHANGED <<phase, config, children, rotation, rotateRadHz, startTime, osc_hz, max_deg,
                   lid, now, oscSeen>>

\* the wall clock read by Date.now() advances
advanceClock ==
    /\ now < MaxTime
    /\ now' = now + 1
    /\ emitted' = <<>>
    /\ lastOp' = [op |-> "advanceClock", arg |-> 0, ok |-> TRUE]
    /\ oscSeen' = Undefined
    /\ UNCHANGED bare
    /\ UNCHANGED <<phase, config, children, rotation, rotateRadHz, startTime, osc_hz, max_deg,
                   loggable, lid>>

----------------------------------------------------------------------------
(* The animation specification: the animation operations over all their
   inputs, the reconfiguration operations over one star, no logger attached *)

AnimConstruct == constructor(0, <<5>>, 10, <<"green">>)

AnimChangeSpheres == changeSpheres(1, <<5>>, 10, 0, StarPositions, <<"green">>)

NextAnim ==
    \/ AnimConstruct
    \/ AnimChangeSpheres
    \/ clearSpheres
    \/ SetRotateRadHz
    \/ SetRotateDegHz
    \/ SetOscillation
    \/ SetRotationRad
    \/ Tick
    \/ advanceClock

SpecAnim == Init /\ [][NextAnim]_vars

(* The logging specification: every operation of the class, the host
   attaching a logger at any moment after construction, the animation
   operations over a few inputs each *)

LogSetRotateRadHz == setRotateRadHz(-900)

LogSetOscillation == \E hz \in OscHzInputs : setOscillation(hz, 30)

LogSetRotationRad == \E angle \in {-4500, 1800} : setRotationRad(angle)

LogTick == tick(1)

NextLog ==
    \/ AnimConstruct
    \/ AnimChangeSpheres
    \/ clearSpheres
    \/ LogSetRotateRadHz
    \/ SetRotateDegHz
    \/ LogSetOscillation
    \/ LogSetRotationRad
    \/ LogTick
    \/ SetLid
    \/ attachLoggable
    \/ advanceClock

SpecLog == Init /\ [][NextLog]_vars

(* The geometry specification: the constructor and the reconfiguration
   operations over all their inputs, setRotationRad and setOscillation over
   one input each *)

GeomSetOscillation == setOscillation(1, 30)

GeomSetRotationRad == setRotationRad(1800)

NextGeom ==
    \/ Construct
    \/ ChangeSpheres
    \/ clearSpheres
    \/ GeomSetOscillation
    \/ GeomSetRotationRad

SpecGeom == Init /\ [][NextGeom]_vars

----------------------------------------------------------------------------
(* Properties of the animation *)

\* C1 (as stated): after any sequence of operations the rotation angle lies
\* in the half-open interval [0, 2 pi).
C1_RotationInZeroToTwoPi == rotation >= 0 /\ rotation < TwoPi

\* C1 (amended): the constructor, changeSpheres, setRotationRad and a tick in
\* ROTATING mode leave the rotation angle in the open interval (-2 pi, 2 pi); a
\* tick in OSCILLATING mode leaves it in [-|max_deg|, |max_deg|]; every other
\* operation leaves it as it was.
C1_RotationRange ==
    [][ /\ (lastOp'.op \in {"constructor", "changeSpheres", "setRotationRad"})
            => (Abs(rotation') < TwoPi)
        /\ (lastOp'.op = "tick" /\ Mode = "ROTATING")
            => (Abs(rotation') < TwoPi)
        /\ (lastOp'.op = "tick" /\ Mode = "OSCILLATING")
            => (Abs(rotation') <= Abs(max_deg[1]))
        /\ (lastOp'.op \notin {"constructor", "changeSpheres", "setRotationRad", "tick"}
                \/ (lastOp'.op = "tick" /\ Mode = "IDLE"))
            => (rotation' = rotation) ]_vars

\* a ROTATING tick with a negative rate has left the rotation negative
C1_Witness ==
    /\ lastOp.op = "tick"
    /\ Mode = "ROTATING"
    /\ rotateRadHz[1] < 0
    /\ rotation = -900

\* C2: immediately after a successful changeSpheres call the rotation is
\* exactly 0.
C2_ChangeSpheresResetsRotation ==
    (lastOp.op = "changeSpheres" /\ lastOp.ok) => (rotation = 0)

\* changeSpheres has returned on a field that is oscillating with a rotation rate set
C2_Witness ==
    /\ lastOp.op = "changeSpheres"
    /\ lastOp.ok
    /\ Mode = "OSCILLATING"
    /\ Truthy(rotateRadHz)
    /\ Len(children) = 1
    /\ rotation = 0

\* C3: while startTime is set, which it is from setOscillation with a rate
\* above 0 until the next setOscillation, the rotation a tick produces is the
\* oscillation angle, a function of the wall time and the oscillation settings
\* that depends neither on the rotation rate nor on delta.
C3_OscillationOverridesRotation ==
    [][ /\ (lastOp'.op = "setOscillation" /\ lastOp'.arg > 0) => (startTime' # Undefined)
        /\ (startTime # Undefined /\ lastOp'.op # "setOscillation") => (startTime' = startTime)
        /\ (startTime # Undefined /\ lastOp'.op = "tick")
            => (rotation' = tickOscillation(now, startTime[1], osc_hz[1], max_deg[1])) ]_vars

\* an oscillating tick with a positive delta on a field whose rotation rate is set
C3_Witness ==
    /\ lastOp.op = "tick"
    /\ lastOp.arg > 0
    /\ Mode = "OSCILLATING"
    /\ Truthy(rotateRadHz)
    /\ rotation # 0

\* C4: in OSCILLATING mode a tick made at the same wall time and under the same
\* oscillation settings as an earlier tick produces the same rotation as that
\* tick, whatever the rotation before it and its delta.
C4_SameTimeSameRotation ==
    [][ (lastOp'.op = "tick" /\ startTime # Undefined /\ oscSeen # Undefined)
            => (rotation' = oscSeen[1].rotation) ]_vars

\* a second oscillating tick at one wall time, made from another rotation than it produces
C4_Witness ==
    /\ lastOp.op = "tick"
    /\ lastOp.arg = MaxDelta
    /\ startTime # Undefined
    /\ oscSeen # Undefined
    /\ oscSeen[1].again
    /\ rotation = 300

\* C5 (as stated): in ROTATING mode setRotationRad(a) followed by tick(0)
\* leaves the rotation equal to a mod 2 pi, the value in [0, 2 pi).
C5_ZeroDeltaKeepsAngleMod ==
    [][ ( /\ lastOp.op = "setRotationRad"
          /\ lastOp'.op = "tick"
          /\ lastOp'.arg = 0
          /\ Mode = "ROTATING" )
            => (rotation' = lastOp.arg % TwoPi) ]_vars

\* C5 (amended): in ROTATING mode setRotationRad(a) followed by tick(0) leaves
\* the rotation equal to the remainder a % 2 pi that setRotationRad stored,
\* which has the sign of a.
C5_ZeroDeltaKeepsAngle ==
    [][ ( /\ lastOp.op = "setRotationRad"
          /\ lastOp'.op = "tick"
          /\ lastOp'.arg = 0
          /\ Mode = "ROTATING" )
            => ( /\ rotation' = JsRem(lastOp.arg, TwoPi)
                 /\ rotation' = rotation ) ]_vars

\* tick(0), made in ROTATING mode right after setRotationRad stored a negative
\* angle, has left that angle as it was
C5_Witness ==
    /\ lastOp.op = "tick"
    /\ lastOp.after = "setRotationRad"
    /\ lastOp.arg = 0
    /\ Mode = "ROTATING"
    /\ rotation = -900

\* C10: setOscillation with a rate above 0 stores the present wall time as
\* start time and makes the field OSCILLATING; with a rate of 0 or less it
\* clears the start time and keeps rotation and rotation rate, so that the field
\* is ROTATING under a non-zero rate and IDLE otherwise, and the tick that
\* follows integrates from the rotation the oscillation left.
C10_SetOscillationTransitions ==
    [][ /\ (lastOp'.op = "setOscillation" /\ lastOp'.arg > 0)
            => (startTime' = Some(now) /\ Mode' = "OSCILLATING")
        /\ (lastOp'.op = "setOscillation" /\ lastOp'.arg <= 0)
            => ( /\ startTime' = Undefined
                 /\ rotateRadHz' = rotateRadHz
                 /\ rotation' = rotation
                 /\ Mode' = IF Truthy(rotateRadHz) THEN "ROTATING" ELSE "IDLE" )
        /\ (lastOp.op = "setOscillation" /\ lastOp.arg <= 0 /\ lastOp'.op = "tick")
            => (rotation' = IF Truthy(rotateRadHz)
                            THEN JsRem(rotation + lastOp'.arg * rotateRadHz[1], TwoPi)
                            ELSE rotation) ]_vars

\* the tick right after setOscillation switched the oscillation off has added
\* a quarter turn to the 30 degrees the oscillation left
C10_Witness ==
    /\ lastOp.op = "tick"
    /\ lastOp.after = "setOscillation"
    /\ lastOp.arg = 1
    /\ Mode = "ROTATING"
    /\ rotateRadHz = Some(900)
    /\ rotation = 1200

\* C15 (as stated): while the field is OSCILLATING the rotation after every
\* tick lies in [-max_deg, max_deg].
C15_OscillationWithinMaxAngle ==
    (lastOp.op = "tick" /\ startTime # Undefined)
        => (-max_deg[1] <= rotation /\ rotation <= max_deg[1])

\* C15 (amended): while the field is OSCILLATING the rotation after every
\* tick lies in [-|max_deg|, |max_deg|].
C15_OscillationWithinAmplitude ==
    (lastOp.op = "tick" /\ startTime # Undefined)
        => (Abs(rotation) <= Abs(max_deg[1]))

\* an oscillating tick under a negative maximum angle has reached the positive peak
C15_Witness ==
    /\ lastOp.op = "tick"
    /\ startTime # Undefined
    /\ max_deg = Some(-300)
    /\ rotation = 300

\* C17 (as stated): in ROTATING mode, from any starting rotation, tick(d1)
\* followed by tick(d2) ends in the rotation a single tick(d1 + d2) ends in.
C17_TicksAdd ==
    [][ (lastOp.op = "tick" /\ lastOp'.op = "tick" /\ Mode = "ROTATING")
            => (rotation' = JsRem(lastOp.from + (lastOp.arg + lastOp'.arg) * rotateRadHz[1], TwoPi)) ]_vars

\* C17 (amended): in ROTATING mode, from a starting rotation in (-2 pi, 2 pi),
\* tick(d1) followed by tick(d2) ends in the rotation a single tick(d1 + d2)
\* ends in.
C17_TicksAddWithinTurn ==
    [][ ( /\ lastOp.op = "tick"
          /\ lastOp'.op = "tick"
          /\ Mode = "ROTATING"
          /\ Abs(lastOp.from) < TwoPi )
            => (rotation' = JsRem(lastOp.from + (lastOp.arg + lastOp'.arg) * rotateRadHz[1], TwoPi)) ]_vars

\* the second of two ROTATING ticks under a negative rate has taken the rotation below 0
C17_Witness ==
    /\ lastOp.op = "tick"
    /\ lastOp.after = "tick"
    /\ lastOp.arg = MaxDelta
    /\ Mode = "ROTATING"
    /\ rotateRadHz = Some(-900)
    /\ lastOp.from = 900
    /\ rotation = -900

\* C18 (as stated): changeSpheres leaves rotation rate, oscillation rate,
\* maximum angle and start time as they were, so the mode is the same, and the
\* tick that follows in ROTATING or OSCILLATING mode moves the rotation away
\* from 0.
C18_ChangeSpheresKeepsAnimationMoving ==
    [][ /\ (lastOp'.op = "changeSpheres")
            => ( /\ rotateRadHz' = rotateRadHz
                 /\ osc_hz' = osc_hz
                 /\ max_deg' = max_deg
                 /\ startTime' = startTime
                 /\ Mode' = Mode )
        /\ (lastOp.op = "changeSpheres" /\ lastOp'.op = "tick" /\ Mode # "IDLE")
            => (rotation' # 0) ]_vars

\* C18 (amended): changeSpheres leaves rotation rate, oscillation rate,
\* maximum angle and start time as they were, so the mode is the same, and the
\* tick that follows continues the animation from 0: in ROTATING mode to
\* (delta * rotateRadHz) % 2 pi, in OSCILLATING mode to the oscillation angle
\* of that wall time.
C18_ChangeSpheresKeepsAnimation ==
    [][ /\ (lastOp'.op = "changeSpheres")
            => ( /\ rotateRadHz' = rotateRadHz
                 /\ osc_hz' = osc_hz
                 /\ max_deg' = max_deg
                 /\ startTime' = startTime
                 /\ Mode' = Mode )
        /\ (lastOp.op = "changeSpheres" /\ lastOp'.op = "tick" /\ Mode = "ROTATING")
            => (rotation' = JsRem(lastOp'.arg * rotateRadHz[1], TwoPi))
        /\ (lastOp.op = "changeSpheres" /\ lastOp'.op = "tick" /\ Mode = "OSCILLATING")
            => (rotation' = tickOscillation(now, startTime[1], osc_hz[1], max_deg[1])) ]_vars

\* the tick after a changeSpheres on an oscillating field has taken the rotation from 0 to the peak
C18_Witness ==
    /\ lastOp.op = "tick"
    /\ lastOp.after = "changeSpheres"
    /\ lastOp.from = 0
    /\ Mode = "OSCILLATING"
    /\ Truthy(rotateRadHz)
    /\ rotation = 300

----------------------------------------------------------------------------
(* Properties of the geometry builder and of the reconfiguration *)

Range(seq) == { seq[j] : j \in 1..Len(seq) }

\* C6: after a successful changeSpheres(n, ...) the field holds exactly n
\* primitives, each a new object with radius, color and position taken from
\* the arguments of the call; no child from before the call remains.
C6_ChangeSpheresReplacesAll ==
    [][ (lastOp'.op = "changeSpheres" /\ lastOp'.ok)
            => LET a == lastOp'.arg
               IN  /\ Len(children') = a.sphereCount
                   /\ Cardinality(Ids(children')) = a.sphereCount
                   /\ Ids(children') \cap Ids(children) = {}
                   /\ \A j \in 1..Len(children') :
                        /\ children'[j].color \in Range(a.color)
                        /\ children'[j].radius \in
                             { a.shellRadius * Sin(degToRad(r)) : r \in Range(a.sphereRadiusDeg) }
                        /\ children'[j].position \in
                             { <<q[1], q[2], q[3]>> : q \in Range(a.positions) } ]_vars

\* changeSpheres has built the largest field in place of an earlier one: the
\* new primitives do not carry the first identities
C6_Witness ==
    /\ lastOp.op = "changeSpheres"
    /\ lastOp.ok
    /\ Len(children) = MaxCount
    /\ 0 \notin Ids(children)

\* C7: the constructor called with star count n returns and leaves exactly n
\* primitives, for every n >= 0.
C7_ConstructorPopulates ==
    (lastOp.op = "constructor")
        => (lastOp.ok /\ phase = "live" /\ Len(children) = lastOp.arg.sphereCount)

\* C8: primitive i of the builder, i counted from 0, has the color at index
\* i mod len(color), the position positions[i], and the radius shellRadius times
\* the sine of the angular radius at index i mod len(sphereRadiusDeg) converted
\* to radians.
C8_BuilderIndexing ==
    (lastOp.op \in {"constructor", "changeSpheres"})
        => LET a == lastOp.arg
           IN  \A i \in 0..(Len(children) - 1) :
                 LET deg == a.sphereRadiusDeg[(i % Len(a.sphereRadiusDeg)) + 1]
                 IN  /\ i < a.sphereCount
                     /\ children[i + 1].radius = a.shellRadius * Sin((deg * TwoPi) \div 360)
                     /\ children[i + 1].color = a.color[(i % Len(a.color)) + 1]
                     /\ children[i + 1].position =
                            << a.positions[i + 1][1], a.positions[i + 1][2], a.positions[i + 1][3] >>

\* the builder has wrapped around the two radii and the two colors for the third star
C8_Witness ==
    /\ lastOp.op = "changeSpheres"
    /\ lastOp.arg.sphereRadiusDeg = <<5, 30>>
    /\ lastOp.arg.color = <<"green", "red">>
    /\ Len(children) = 3
    /\ children[1].radius = 8720
    /\ children[2].radius = 50000
    /\ children[3].radius = 8720
    /\ children[2].color = "red"
    /\ children[3].color = "green"
    /\ children[3].position = <<3, -3, 13>>

\* C9: clearSpheres removes every primitive and leaves rotation, rotation rate,
\* oscillation rate, maximum angle, start time and loop id as they were.
C9_ClearSpheresFrame ==
    [][ (lastOp'.op = "clearSpheres")
            => ( /\ children' = <<>>
                 /\ rotation' = rotation
                 /\ rotateRadHz' = rotateRadHz
                 /\ osc_hz' = osc_hz
                 /\ max_deg' = max_deg
                 /\ startTime' = startTime
                 /\ lid' = lid ) ]_vars

\* clearSpheres has run on a turned, oscillating field with a rate and a loop id set
C9_Witness ==
    /\ lastOp.op = "clearSpheres"
    /\ children = <<>>
    /\ rotation = 1800
    /\ Truthy(rotateRadHz)
    /\ startTime # Undefined
    /\ lid = 1

\* C14: changeSpheres called with a star count above the length of positions
\* does not return normally, and no call that returns has built fewer stars
\* than its star count.
C14_TooFewPositionsThrows ==
    (lastOp.op = "changeSpheres")
        => ( /\ (lastOp.arg.sphereCount > Len(lastOp.arg.positions)) => ~lastOp.ok
             /\ lastOp.ok => (Len(children) = lastOp.arg.sphereCount) )

\* changeSpheres has thrown on the largest star count with one position
C14_Witness ==
    /\ lastOp.op = "changeSpheres"
    /\ lastOp.arg.sphereCount = MaxCount
    /\ Len(lastOp.arg.positions) = 1
    /\ ~lastOp.ok

\* C19: a changeSpheres that fails on a positions sequence of length k below
\* its star count leaves no child from before the call, the rotation at 0, and
\* exactly the first k primitives of the new configuration.
C19_FailedChangeSpheresIsPartial ==
    [][ (lastOp'.op = "changeSpheres" /\ ~lastOp'.ok)
            => LET a == lastOp'.arg
                   k == Len(a.positions)
               IN  /\ k < a.sphereCount
                   /\ Len(children') = k
                   /\ Ids(children') \cap Ids(children) = {}
                   /\ rotation' = 0
                   /\ \A i \in 0..(k - 1) :
                        /\ children'[i + 1].color = a.color[(i % Len(a.color)) + 1]
                        /\ children'[i + 1].position =
                             << a.positions[i + 1][1], a.positions[i + 1][2], a.positions[i + 1][3] >> ]_vars

\* a failed changeSpheres has left two new primitives in place of earlier ones
C19_Witness ==
    /\ lastOp.op = "changeSpheres"
    /\ ~lastOp.ok
    /\ lastOp.arg.sphereCount = 3
    /\ Len(children) = 2
    /\ 0 \notin Ids(children)

----------------------------------------------------------------------------
(* Properties of the logging *)

\* C11: with a logger attached, every call of changeSpheres, clearSpheres,
\* setRotateRadHz, setRotateDegHz, setOscillation, setRotationRad and tick
\* emits at least one log entry.
C11_EveryCallLogs ==
    ( /\ loggable
      /\ lastOp.op \in {"changeSpheres", "clearSpheres", "setRotateRadHz", "setRotateDegHz",
                        "setOscillation", "setRotationRad", "tick"} )
        => (Len(emitted) >= 1)

SetupKeys ==
    { "spheres-sphere-count", "spheres-sphere-radius-degrees", "spheres-shell-radius",
      "spheres-seed", "spheres-sphere-color", "spheres-type" }

\* the entries hold exactly one entry for each of the six configuration fields
SixFields(entries) ==
    \A k \in SetupKeys : Cardinality({ j \in 1..Len(entries) : entries[j][2] = k }) = 1

\* C12: each run of the geometry builder, in the constructor and in every
\* changeSpheres made with a logger attached, emits exactly one log entry for
\* each of the six configuration fields, so that the construction is on record.
C12_BuilderLogsSixFields ==
    /\ (lastOp.op = "constructor") => SixFields(emitted)
    /\ (lastOp.op = "changeSpheres" /\ loggable) => SixFields(emitted)

\* C13: logging is observation only: after every sequence of operations the
\* field, with or without a logger, has the primitive count, rotation,
\* rotation rate, oscillation settings and loop id of the field that is sent
\* the same calls and never has a logger, and each of its calls returns
\* normally exactly when that field's call does.
C13_LoggingIsObservationOnly ==
    /\ Len(children) = bare.count
    /\ rotation = bare.rotation
    /\ rotateRadHz = bare.rotateRadHz
    /\ startTime = bare.startTime
    /\ osc_hz = bare.osc_hz
    /\ max_deg = bare.max_deg
    /\ lid = bare.lid
    /\ (lastOp.op \notin {"none", "attachLoggable", "advanceClock"}) => (lastOp.ok = bare.ok)

\* a field with a logger has logged an oscillating tick under a loop id set after the logger was attached
C13_Witness ==
    /\ loggable
    /\ lastOp.op = "tick"
    /\ Mode = "OSCILLATING"
    /\ emitted = << <<1, "spheres-tick-rotation", 300>> >>
    /\ bare.rotation = 300
    /\ bare.lid = 1
    /\ bare.count = 1

\* C16 (as stated): the entry setRotationRad emits and the entry tick emits
\* carry the rotation as it is after the operation.
C16_LoggedValueIsRotation ==
    (loggable /\ lastOp.op \in {"setRotationRad", "tick"})
        => (Len(emitted) = 1 /\ emitted[1][3] = rotation)

\* C16 (amended): the entry tick emits carries the rotation as it is after the
\* tick; the entry setRotationRad emits carries the angle passed in, of which
\* the rotation after the call is the remainder by 2 pi.
C16_LoggedValue ==
    /\ (loggable /\ lastOp.op = "tick")
        => (emitted = << <<lid, "spheres-tick-rotation", rotation>> >>)
    /\ (loggable /\ lastOp.op = "setRotationRad")
        => ( /\ emitted = << <<lid, "spheres-set-rotationRad", lastOp.arg>> >>
             /\ rotation = JsRem(emitted[1][3], TwoPi) )

\* setRotationRad has logged an angle beyond a full turn, which is not the rotation it stored
C16_Witness ==
    /\ loggable
    /\ lastOp.op = "setRotationRad"
    /\ emitted[1][3] = -4500
    /\ rotation = -900

\* C20: every entry an operation other than setLid emits carries the loop id
\* in force, the one the last setLid stored; the one entry setLid(id) emits
\* carries the loop id in force before the call, and id as its value.
C20_EntriesCarryLoopId ==
    [][ /\ (lastOp'.op # "setLid")
            => (lid' = lid /\ \A j \in 1..Len(emitted') : emitted'[j][1] = lid)
        /\ (lastOp'.op = "setLid" /\ loggable)
            => (emitted' = << <<lid, "spheres-set-lid-old", lid'>> >>) ]_vars

\* after setLid(1) a changeSpheres has emitted its eight entries under loop id 1
C20_Witness ==
    /\ loggable
    /\ lid = 1
    /\ lastOp.op = "changeSpheres"
    /\ Len(emitted) = 8
    /\ \A j \in 1..Len(emitted) : emitted[j][1] = 1

====
